---- MODULE Spec2Model ----
(***************************************************************************)
(* A model of estd::semaphore and estd::blocking_queue<T> with its         *)
(* consumer_iterator (src/blocking_queue.h).                               *)
(*                                                                         *)
(* Every thread executes calls of the public operations.  A call is cut    *)
(* into steps at the points where it acquires a mutex; the statements a    *)
(* thread runs while it holds a mutex touch only state guarded by that     *)
(* mutex and are one step.  pc[t] is the position of thread t inside its   *)
(* current call, op[t] the public operation it is running.                 *)
(*                                                                         *)
(* std::mutex is used outside its contract in two places:                  *)
(*   - semaphore::signal unlocks sig_ although the caller never locked it; *)
(*   - semaphore::wait locks sig_ again while the caller already owns it.  *)
(* Both are undefined behaviour.  The model takes the outcomes of the two  *)
(* kinds of mutex a std::mutex is built on: a plain mutex (the unlock      *)
(* releases the mutex whoever owns it, the relock never returns) and an    *)
(* error-checking one (the unlock has no effect and its error is dropped,  *)
(* the relock throws std::system_error), as a choice at each occurrence.   *)
(***************************************************************************)
EXTENDS Integers, Sequences, FiniteSets, Bags, TLC

\* ---------------------------------------------------------------- bounds
NThreads == 2
NumValues == 2
MaxCalls == 3
MaxSeqCalls == 4
MaxGateCalls == 4
MaxInitCount == 1
MaxIterCalls == 3
MaxLoad == 2

Threads == 1 .. NThreads
Values == 1 .. NumValues

\* No owner of a mutex / no thread.
None == 0
\* The indeterminate content of a default-initialised T, or of the reference
\* front()/back() give on an empty deque.
NoValue == -1

PushOps == {"push_back", "push_front"}
PopOps == {"pop_back", "pop_front"}
BeginOps == {"begin", "rbegin", "begin_detached", "rbegin_detached"}
EndOps == {"end", "rend"}
AdvanceOps == {"inc", "dec"}
\* An operator++ that pops at the back.
FrontOpsNoInc == {"pop_front", "begin", "begin_detached"}

\* The operations that pop at the front / at the back when they pop.
FrontOps == {"pop_front", "begin", "begin_detached", "inc"}
BackOps == {"pop_back", "rbegin", "rbegin_detached", "dec"}

VARIABLES
    data_,      \* blocking_queue::data_, front first
    m_,         \* blocking_queue::m_: the thread that holds it, or None
    mtx_,       \* semaphore::mtx_: the thread that holds it, or None
    sig_,       \* semaphore::sig_: the thread that locked it, or None
    count_,     \* semaphore::count_
    pc,         \* pc[t]: where thread t stands in its call
    op,         \* op[t]: the public operation thread t runs or ran last
    arg,        \* arg[t]: the argument of that call (push), else NoValue
    ret,        \* ret[t]: what the last completed call of t returned
    threw,      \* threw[t]: the last call of t ended by an exception
    iter,       \* iter[t]: the consumer_iterator thread t traverses with
    sentinel,   \* sentinel[t]: the iterator the last end()/rend() of t gave
    ncalls,     \* history: the number of calls started
    pushlog,    \* history: the appends done, in order, each with its
                \* thread, operation and value
    poplog,     \* history: the removals done, in order, each with its
                \* thread, operation, value taken, the number of appends
                \* done before it, and the number of appends done and the
                \* length of data_ when its call started
    yielded,    \* yielded[t]: the values the traversal of t has produced
    sawEmpty,   \* sawEmpty[t]: the current wait() of t found count_ == 0
    start,      \* start[t]: what the current call of t started from: the
                \* appends done, the length of data_, and the threads that
                \* were inside wait() with count_ == 0
    gate,       \* history: the calls of signal() and wait() entered and
                \* returned from, counted
    count0,     \* the count the semaphore was constructed with
    budget,     \* the number of calls the threads make at most
    cmp         \* the last comparison of two iterators: the end_ of each
                \* and what operator== and operator!= returned

vars == << data_, m_, mtx_, sig_, count_, pc, op, arg, ret, threw, iter,
           sentinel, ncalls, pushlog, poplog, yielded, sawEmpty, start, gate,
           count0, budget, cmp >>

\* ------------------------------------------------------------ std::deque
\* std::deque<T>::push_back / push_front / back / front / pop_back / pop_front
\* A push_back() that stores nothing.
DequePushBackNothing(d, v) == d

DequePushBack(d, v) == Append(d, v)

\* A push_front() that inserts at the back.
DequePushFrontAtBack(d, v) == Append(d, v)

DequePushFront(d, v) == <<v>> \o d

\* A front() that reads the other end.
DequeFrontOtherEnd(d) == d[Len(d)]

DequeFront(d) == d[1]

\* A back() that reads the other end.
DequeBackOtherEnd(d) == d[1]

DequeBack(d) == d[Len(d)]

\* A pop_front() that removes at the other end.
DequePopFrontOtherEnd(d) == SubSeq(d, 1, Len(d) - 1)

DequePopFront(d) == SubSeq(d, 2, Len(d))

DequePopBack(d) == SubSeq(d, 1, Len(d) - 1)

\* A size() that answers from a count nothing keeps up to date.
DequeSizeStale(d) == 0

\* A size() that is one too high.
DequeSizePlusOne(d) == Len(d) + 1

DequeSize(d) == Len(d)

\* ------------------------------------------------------------ std::mutex
\* unlock() by thread t of a mutex held by owner: the mutex afterwards.
\* With owner = t this is the defined unlock.  Otherwise it is undefined:
\* the mutex is released anyway, or the call has no effect.
MutexUnlock(owner, t) == IF owner = t THEN {None} ELSE {None, owner}

\* The consumer_iterator as constructed: value_ default-initialised,
\* detach_ = false, end_ as given.
\* live and base are no fields of the class: live tells a constructed
\* object from the slot of a thread that holds none, base is the number of
\* removals done before the construction.
NewIterator(end, n) ==
    [live |-> TRUE, value_ |-> NoValue, detach_ |-> FALSE, end_ |-> end,
     base |-> n]

NoIterator ==
    [live |-> FALSE, value_ |-> NoValue, detach_ |-> FALSE, end_ |-> TRUE,
     base |-> 0]

\* start[t] of a thread that has made no call.
NoCall == [pushes |-> 0, len |-> 0, blocked |-> {}]

\* cmp before any two iterators were compared.
NoCmp == [done |-> FALSE, a |-> TRUE, b |-> TRUE, eq |-> TRUE, ne |-> FALSE]

\* ------------------------------------------------------------------ Init
\* The queue as constructed, and threads that have called nothing.
Fresh ==
    /\ data_ = << >>
    /\ m_ = None
    /\ mtx_ = None
    /\ sig_ = None
    /\ pc = [t \in Threads |-> "idle"]
    /\ op = [t \in Threads |-> "none"]
    /\ arg = [t \in Threads |-> NoValue]
    /\ ret = [t \in Threads |-> NoValue]
    /\ threw = [t \in Threads |-> FALSE]
    /\ iter = [t \in Threads |-> NoIterator]
    /\ sentinel = [t \in Threads |-> NoIterator]
    /\ ncalls = 0
    /\ pushlog = << >>
    /\ poplog = << >>
    /\ yielded = [t \in Threads |-> << >>]
    /\ sawEmpty = [t \in Threads |-> FALSE]
    /\ start = [t \in Threads |-> NoCall]
    /\ gate = [signals |-> 0, signalled |-> 0, waits |-> 0, waited |-> 0]
    /\ cmp = NoCmp

\* blocking_queue's e_ is a semaphore constructed with the default count, 0.
Init ==
    /\ Fresh
    /\ count0 = 0
    /\ count_ = count0
    /\ budget = MaxCalls

\* A call of operation o with argument v starts in thread t at position p.
\* The threads run the same code: they are numbered in the order of their
\* first calls.
Start(t, o, v, p) ==
    /\ pc[t] = "idle"
    /\ ncalls < budget
    /\ \A u \in Threads : u < t => op[u] # "none"
    /\ pc' = [pc EXCEPT ![t] = p]
    /\ op' = [op EXCEPT ![t] = o]
    /\ arg' = [arg EXCEPT ![t] = v]
    /\ threw' = [threw EXCEPT ![t] = FALSE]
    /\ start' = [start EXCEPT ![t] =
                    IF p = "idle" THEN NoCall
                    ELSE [pushes |-> Len(pushlog), len |-> Len(data_),
                          blocked |-> {u \in Threads : sawEmpty[u]}]]
    /\ gate' = [gate EXCEPT
                    !.signals = IF p = "signal_lock" THEN @ + 1 ELSE @,
                    !.waits = IF p = "wait_lock" THEN @ + 1 ELSE @]
    /\ ncalls' = ncalls + 1
    /\ UNCHANGED << data_, m_, mtx_, sig_, count_, ret, pushlog, poplog,
                    sawEmpty, count0, budget, cmp >>

\* The current call of thread t returns: what it started from is forgotten.
Return(t) ==
    /\ pc' = [pc EXCEPT ![t] = "idle"]
    /\ arg' = [arg EXCEPT ![t] = NoValue]
    /\ sawEmpty' = [sawEmpty EXCEPT ![t] = FALSE]
    /\ start' = [start EXCEPT ![t] = NoCall]

\* The current call of thread t goes on at position p.
Goto(t, p) ==
    /\ pc' = [pc EXCEPT ![t] = p]
    /\ UNCHANGED << arg, sawEmpty, start >>

\* -------------------------------------------------------------- semaphore
\* semaphore::signal(), called directly.
signal(t) ==
    /\ Start(t, "signal", NoValue, "signal_lock")
    /\ UNCHANGED << iter, sentinel, yielded >>

\* semaphore::wait(), called directly.
wait(t) ==
    /\ Start(t, "wait", NoValue, "wait_lock")
    /\ UNCHANGED << iter, sentinel, yielded >>

\* signal(): std::unique_lock<std::mutex> lck(mtx_);
SignalLock(t) ==
    /\ pc[t] = "signal_lock"
    /\ mtx_ = None
    /\ mtx_' = t
    /\ pc' = [pc EXCEPT ![t] = "signal_body"]
    /\ UNCHANGED << data_, m_, sig_, count_, op, arg, ret, threw, iter,
                    sentinel, ncalls, pushlog, poplog, yielded, sawEmpty,
                    start, gate, count0, budget, cmp >>

\* signal(): ++count_; sig_.unlock(); and lck releases mtx_ on return.
\* signal() is the last statement of push_back/push_front, which return too.
SignalBody(t) ==
    /\ pc[t] = "signal_body"
    /\ count_' = count_ + 1
    /\ sig_' \in MutexUnlock(sig_, t)
    /\ mtx_' = None
    /\ gate' = [gate EXCEPT !.signalled = @ + 1]
    /\ Return(t)
    /\ UNCHANGED << data_, m_, op, ret, threw, iter, sentinel, ncalls,
                    pushlog, poplog, yielded, count0, budget, cmp >>

\* A wait() that never waits.
MustWaitNever(c) == FALSE

\* A wait() that waits on a negative count only.
MustWaitBelowZero(c) == c < 0

\* wait(): the condition of while (count_ == 0)
MustWait(c) == c = 0

\* wait(): std::unique_lock<std::mutex> lck(mtx_);
WaitLock(t) ==
    /\ pc[t] = "wait_lock"
    /\ mtx_ = None
    /\ mtx_' = t
    /\ pc' = [pc EXCEPT ![t] = "wait_test"]
    /\ UNCHANGED << data_, m_, sig_, count_, op, arg, ret, threw, iter,
                    sentinel, ncalls, pushlog, poplog, yielded, sawEmpty,
                    start, gate, count0, budget, cmp >>

\* wait(): the test of while (count_ == 0); when it fails, --count_ and lck
\* releases mtx_ on return.  A pop goes on to m_.lock().
WaitTest(t) ==
    /\ pc[t] = "wait_test"
    /\ IF MustWait(count_)
       THEN /\ pc' = [pc EXCEPT ![t] = "wait_siglock"]
            /\ sawEmpty' = [sawEmpty EXCEPT ![t] = TRUE]
            /\ UNCHANGED << count_, mtx_, gate, arg, start >>
       ELSE /\ count_' = count_ - 1
            /\ mtx_' = None
            /\ gate' = [gate EXCEPT !.waited = @ + 1]
            /\ IF op[t] = "wait" THEN Return(t) ELSE Goto(t, "pop_lock")
    /\ UNCHANGED << data_, m_, sig_, op, ret, threw, iter, sentinel,
                    ncalls, pushlog, poplog, yielded, count0, budget, cmp >>

\* wait(): sig_.lock(), with mtx_ held.  A free sig_ is taken and the loop
\* tests again.  A sig_ another thread locked blocks the caller.  A sig_ the
\* caller locked itself is undefined behaviour: the call never returns, or
\* lock() throws std::system_error, which unwinds wait() (lck releases
\* mtx_) and the operation that called it; an iterator under construction
\* is never constructed.
WaitSigLock(t) ==
    /\ pc[t] = "wait_siglock"
    /\ \/ /\ sig_ = None
          /\ sig_' = t
          /\ Goto(t, "wait_test")
          /\ UNCHANGED << mtx_, threw, iter >>
       \/ /\ sig_ = t
          /\ Goto(t, "deadlocked")
          /\ UNCHANGED << sig_, mtx_, threw, iter >>
       \/ /\ sig_ = t
          /\ mtx_' = None
          /\ threw' = [threw EXCEPT ![t] = TRUE]
          /\ iter' = [iter EXCEPT ![t] =
                        IF op[t] \in BeginOps THEN NoIterator ELSE @]
          /\ Return(t)
          /\ UNCHANGED sig_
    /\ UNCHANGED << data_, m_, count_, op, ret, sentinel, ncalls,
                    pushlog, poplog, yielded, gate, count0, budget, cmp >>

\* ---------------------------------------------------------- blocking_queue
\* blocking_queue::push_back(const T&), called.
push_back(t, v) ==
    /\ Start(t, "push_back", v, "push_lock")
    /\ UNCHANGED << iter, sentinel, yielded >>

\* blocking_queue::push_front(const T&), called.
push_front(t, v) ==
    /\ Start(t, "push_front", v, "push_lock")
    /\ UNCHANGED << iter, sentinel, yielded >>

\* blocking_queue::pop_back(), called: it starts with e_.wait().
pop_back(t) ==
    /\ Start(t, "pop_back", NoValue, "wait_lock")
    /\ UNCHANGED << iter, sentinel, yielded >>

\* blocking_queue::pop_front(), called: it starts with e_.wait().
pop_front(t) ==
    /\ Start(t, "pop_front", NoValue, "wait_lock")
    /\ UNCHANGED << iter, sentinel, yielded >>

\* blocking_queue::size(), called.
size(t) ==
    /\ Start(t, "size", NoValue, "size_lock")
    /\ UNCHANGED << iter, sentinel, yielded >>

\* push_back / push_front: m_.lock();
PushLock(t) ==
    /\ pc[t] = "push_lock"
    /\ m_ = None
    /\ m_' = t
    /\ pc' = [pc EXCEPT ![t] = "push_body"]
    /\ UNCHANGED << data_, mtx_, sig_, count_, op, arg, ret, threw, iter,
                    sentinel, ncalls, pushlog, poplog, yielded, sawEmpty,
                    start, gate, count0, budget, cmp >>

\* push_back / push_front: data_.push_back(t) or data_.push_front(t);
\* m_.unlock(); then e_.signal() is entered.
PushBody(t) ==
    /\ pc[t] = "push_body"
    /\ data_' = IF op[t] = "push_back"
                THEN DequePushBack(data_, arg[t])
                ELSE DequePushFront(data_, arg[t])
    /\ m_' = None
    /\ pushlog' = Append(pushlog, [t |-> t, op |-> op[t], val |-> arg[t]])
    /\ gate' = [gate EXCEPT !.signals = @ + 1]
    /\ pc' = [pc EXCEPT ![t] = "signal_lock"]
    /\ UNCHANGED << mtx_, sig_, count_, op, arg, ret, threw, iter, sentinel,
                    ncalls, poplog, yielded, sawEmpty, start, count0, budget, cmp >>

\* pop_back / pop_front, after e_.wait(): m_.lock();
PopLock(t) ==
    /\ pc[t] = "pop_lock"
    /\ m_ = None
    /\ m_' = t
    /\ pc' = [pc EXCEPT ![t] = "pop_body"]
    /\ UNCHANGED << data_, mtx_, sig_, count_, op, arg, ret, threw, iter,
                    sentinel, ncalls, pushlog, poplog, yielded, sawEmpty,
                    start, gate, count0, budget, cmp >>

\* What T t = data_.front() / data_.back() may hold: the element, or, on an
\* empty deque (undefined behaviour), anything.
Taken(d, front) ==
    IF d = << >> THEN Values \cup {NoValue}
    ELSE IF front THEN {DequeFront(d)} ELSE {DequeBack(d)}

\* A pop that leaves the element in data_.
RemovedNothing(d, front) == d

\* data_ after data_.pop_front() / data_.pop_back().
Removed(d, front) ==
    IF d = << >> THEN d
    ELSE IF front THEN DequePopFront(d) ELSE DequePopBack(d)

\* pop_back / pop_front: T t = data_.back() or data_.front();
\* data_.pop_back() or data_.pop_front(); m_.unlock(); return t;
\* Called by operator++ / operator-- the result is assigned to value_, and
\* begin_detached() / rbegin_detached() then detach() the iterator.  The
\* traversal yields the value held by an iterator that is not at its end.
PopBody(t) ==
    /\ pc[t] = "pop_body"
    /\ \E v \in Taken(data_, op[t] \in FrontOps) :
          /\ poplog' = Append(poplog,
                 [t |-> t, op |-> op[t], val |-> v, pushes |-> Len(pushlog),
                  pushes0 |-> start[t].pushes, len0 |-> start[t].len])
          /\ IF op[t] \in PopOps
             THEN /\ ret' = [ret EXCEPT ![t] = v]
                  /\ UNCHANGED << iter, yielded >>
             ELSE /\ iter' = [iter EXCEPT ![t] =
                        [@ EXCEPT !.value_ = v,
                                  !.detach_ = IF op[t] \in
                                      {"begin_detached", "rbegin_detached"}
                                      THEN TRUE ELSE @]]
                  /\ yielded' = [yielded EXCEPT ![t] =
                        IF iter[t].end_ THEN @ ELSE Append(@, v)]
                  /\ UNCHANGED ret
    /\ data_' = Removed(data_, op[t] \in FrontOps)
    /\ m_' = None
    /\ Return(t)
    /\ UNCHANGED << mtx_, sig_, count_, op, threw, sentinel, ncalls,
                    pushlog, gate, count0, budget, cmp >>

\* size(): m_.lock();
SizeLock(t) ==
    /\ pc[t] = "size_lock"
    /\ m_ = None
    /\ m_' = t
    /\ pc' = [pc EXCEPT ![t] = "size_body"]
    /\ UNCHANGED << data_, mtx_, sig_, count_, op, arg, ret, threw, iter,
                    sentinel, ncalls, pushlog, poplog, yielded, sawEmpty,
                    start, gate, count0, budget, cmp >>

\* size(): size_t sz = data_.size(); m_.unlock(); return sz;
\* Called by operator++ / operator-- of a detached iterator, a result of 0
\* sets end_ and returns, any other goes on to the pop.
SizeBody(t) ==
    /\ pc[t] = "size_body"
    /\ m_' = None
    /\ IF op[t] = "size"
       THEN /\ ret' = [ret EXCEPT ![t] = DequeSize(data_)]
            /\ Return(t)
            /\ UNCHANGED << iter, gate >>
       ELSE IF DequeSize(data_) = 0
       THEN /\ iter' = [iter EXCEPT ![t] = [@ EXCEPT !.end_ = TRUE]]
            /\ Return(t)
            /\ UNCHANGED << ret, gate >>
       ELSE /\ Goto(t, "wait_lock")
            /\ gate' = [gate EXCEPT !.waits = @ + 1]
            /\ UNCHANGED << iter, ret >>
    /\ UNCHANGED << data_, mtx_, sig_, count_, op, threw, sentinel,
                    ncalls, pushlog, poplog, yielded, count0, budget, cmp >>

\* -------------------------------------------------------- consumer_iterator
\* consumer_iterator(bq, advance, false): end_ = false, then ++*this or
\* --*this, which on the fresh iterator (detach_ = false) is a pop.
Construct(t, o) ==
    /\ Start(t, o, NoValue, "wait_lock")
    /\ iter' = [iter EXCEPT ![t] = NewIterator(FALSE, Len(poplog))]
    /\ yielded' = [yielded EXCEPT ![t] = << >>]
    /\ UNCHANGED sentinel

\* blocking_queue::begin()
begin(t) == Construct(t, "begin")

\* blocking_queue::rbegin()
rbegin(t) == Construct(t, "rbegin")

\* blocking_queue::begin_detached(): begin(), then detach()
begin_detached(t) == Construct(t, "begin_detached")

\* blocking_queue::rbegin_detached(): rbegin(), then detach()
rbegin_detached(t) == Construct(t, "rbegin_detached")

\* An end() that advances the iterator it constructs, as begin() does.
endAdvancing(t) == Construct(t, "end")

\* blocking_queue::end(): consumer_iterator(bq, true, true) returns at once.
end(t) ==
    /\ Start(t, "end", NoValue, "idle")
    /\ sentinel' = [sentinel EXCEPT ![t] = NewIterator(TRUE, Len(poplog))]
    /\ UNCHANGED << iter, yielded >>

\* blocking_queue::rend(): return end();
rend(t) ==
    /\ Start(t, "rend", NoValue, "idle")
    /\ sentinel' = [sentinel EXCEPT ![t] = NewIterator(TRUE, Len(poplog))]
    /\ UNCHANGED << iter, yielded >>

\* An operator++ / operator-- that does not look at detach_.
AdvanceAttached(t, o) ==
    /\ iter[t].live
    /\ Start(t, o, NoValue, "wait_lock")
    /\ UNCHANGED << iter, sentinel, yielded >>

\* operator++ / operator--: is_detached() && bq_.size() == 0 calls size()
\* only on a detached iterator; otherwise the pop follows at once.
Advance(t, o) ==
    /\ iter[t].live
    /\ Start(t, o, NoValue,
             IF iter[t].detach_ THEN "size_lock" ELSE "wait_lock")
    /\ UNCHANGED << iter, sentinel, yielded >>

\* consumer_iterator::operator++()
operator_inc(t) == Advance(t, "inc")

\* consumer_iterator::operator--()
operator_dec(t) == Advance(t, "dec")

\* operator==: end_ == it.end_
IterEq(a, b) == a.end_ = b.end_

\* operator!=: !(*this == it)
IterNe(a, b) == ~IterEq(a, b)

\* The iterators that can be compared: those the threads hold and are not
\* advancing or constructing at the moment, and the results of end()/rend().
Iterators ==
    {iter[t] : t \in {u \in Threads : iter[u].live /\ pc[u] = "idle"}}
        \cup {sentinel[t] : t \in {u \in Threads : sentinel[u].live}}

\* a == b and a != b are evaluated.  Both are const and read end_ only.
Compare(a, b) ==
    /\ cmp' = [done |-> TRUE, a |-> a.end_, b |-> b.end_,
               eq |-> IterEq(a, b), ne |-> IterNe(a, b)]
    /\ UNCHANGED << data_, m_, mtx_, sig_, count_, pc, op, arg, ret, threw,
                    iter, sentinel, ncalls, pushlog, poplog, yielded,
                    sawEmpty, start, gate, count0, budget >>

\* --------------------------------------------------------- specifications
\* The steps inside semaphore::signal and semaphore::wait.
GateStep(t) ==
    \/ SignalLock(t)
    \/ SignalBody(t)
    \/ WaitLock(t)
    \/ WaitTest(t)
    \/ WaitSigLock(t)

\* The steps inside the queue's operations.
QueueStep(t) ==
    \/ PushLock(t)
    \/ PushBody(t)
    \/ PopLock(t)
    \/ PopBody(t)
    \/ SizeLock(t)
    \/ SizeBody(t)

\* A value no earlier call was given: the producers tag their elements.
Tag == ncalls + 1

\* Threads that call the queue's push, pop and size operations, each push
\* with a value of its own.
Next ==
    \E t \in Threads :
        \/ push_back(t, Tag)
        \/ push_front(t, Tag)
        \/ pop_back(t)
        \/ pop_front(t)
        \/ size(t)
        \/ QueueStep(t)
        \/ GateStep(t)

Spec == Init /\ [][Next]_vars

\* One thread that calls every operation of the queue and of its iterator.
SeqInit ==
    /\ Fresh
    /\ count0 = 0
    /\ count_ = count0
    /\ budget = MaxSeqCalls

SeqNext ==
    \/ \E v \in Values : push_back(1, v)
    \/ \E v \in Values : push_front(1, v)
    \/ pop_back(1)
    \/ pop_front(1)
    \/ size(1)
    \/ begin(1)
    \/ rbegin(1)
    \/ begin_detached(1)
    \/ rbegin_detached(1)
    \/ end(1)
    \/ rend(1)
    \/ operator_inc(1)
    \/ operator_dec(1)
    \/ QueueStep(1)
    \/ GateStep(1)

SeqSpec == SeqInit /\ [][SeqNext]_vars

\* A semaphore of its own, constructed with any count, whose signal() and
\* wait() the threads call.
GateInit ==
    /\ Fresh
    /\ count0 \in 0 .. MaxInitCount
    /\ count_ = count0
    /\ budget = MaxGateCalls

GateNext ==
    \E t \in Threads :
        \/ signal(t)
        \/ wait(t)
        \/ GateStep(t)

GateSpec == GateInit /\ [][GateNext]_vars

\* The queue after a producer has pushed the values 1 .. k at the back and
\* returned: k elements stored, the gate's count k, every mutex free.
Loaded(k) ==
    /\ data_ = [i \in 1 .. k |-> i]
    /\ pushlog = [i \in 1 .. k |-> [t |-> None, op |-> "push_back", val |-> i]]
    /\ count0 = 0
    /\ count_ = k
    /\ m_ = None
    /\ mtx_ = None
    /\ sig_ = None
    /\ gate = [signals |-> k, signalled |-> k, waits |-> 0, waited |-> 0]

\* Consumer threads, with and without iterators, and producers, on a queue
\* that holds up to MaxLoad elements.
IterInit ==
    /\ \E k \in 0 .. MaxLoad : Loaded(k)
    /\ pc = [t \in Threads |-> "idle"]
    /\ op = [t \in Threads |-> "none"]
    /\ arg = [t \in Threads |-> NoValue]
    /\ ret = [t \in Threads |-> NoValue]
    /\ threw = [t \in Threads |-> FALSE]
    /\ iter = [t \in Threads |-> NoIterator]
    /\ sentinel = [t \in Threads |-> NoIterator]
    /\ ncalls = 0
    /\ poplog = << >>
    /\ yielded = [t \in Threads |-> << >>]
    /\ sawEmpty = [t \in Threads |-> FALSE]
    /\ start = [t \in Threads |-> NoCall]
    /\ cmp = NoCmp
    /\ budget = MaxIterCalls

\* The two threads that use the queue through iterators and pops.
Consumers == {1, 2}

IterNext ==
    \E t \in Consumers :
        \/ push_back(t, MaxLoad + Tag)
        \/ pop_front(t)
        \/ begin(t)
        \/ rbegin(t)
        \/ begin_detached(t)
        \/ rbegin_detached(t)
        \/ end(t)
        \/ rend(t)
        \/ operator_inc(t)
        \/ operator_dec(t)
        \/ QueueStep(t)
        \/ GateStep(t)

IterSpec == IterInit /\ [][IterNext]_vars

\* The iterators a thread can hold between its calls: none; one that is not
\* at its end and holds a popped value, detached or not; a detached one that
\* has reached its end after yielding a value.
HeldIterators ==
    {NoIterator}
        \cup {[NewIterator(FALSE, 0) EXCEPT !.value_ = v, !.detach_ = d] :
                 v \in Values, d \in BOOLEAN}
        \cup {[NewIterator(TRUE, 0) EXCEPT !.value_ = v, !.detach_ = TRUE] :
                 v \in Values}

\* Threads that hold iterators of the queue, of every kind, and compare them.
EqInit ==
    /\ Loaded(0)
    /\ pc = [t \in Threads |-> "idle"]
    /\ op = [t \in Threads |-> "none"]
    /\ arg = [t \in Threads |-> NoValue]
    /\ ret = [t \in Threads |-> NoValue]
    /\ threw = [t \in Threads |-> FALSE]
    /\ iter \in [Threads -> HeldIterators]
    /\ sentinel \in [Threads -> {NoIterator, NewIterator(TRUE, 0)}]
    /\ ncalls = 0
    /\ poplog = << >>
    /\ yielded = [t \in Threads |-> << >>]
    /\ sawEmpty = [t \in Threads |-> FALSE]
    /\ start = [t \in Threads |-> NoCall]
    /\ cmp = NoCmp
    /\ budget = 0

EqNext == \E a, b \in Iterators : Compare(a, b)

EqSpec == EqInit /\ [][EqNext]_vars

\* ------------------------------------------------------------ properties
\* Thread t is inside a call.
InCall(t) == pc[t] # "idle"

\* Thread t cannot take its next step: it waits for a mutex another thread
\* holds, or it is inside the sig_.lock() that never returns.
Blocked(t) ==
    \/ pc[t] = "deadlocked"
    \/ pc[t] \in {"push_lock", "pop_lock", "size_lock"} /\ m_ # None
    \/ pc[t] \in {"signal_lock", "wait_lock"} /\ mtx_ # None
    \/ pc[t] = "wait_siglock" /\ sig_ \notin {None, t}

\* No call in progress can take a step.  Under fair scheduling every call
\* that can take a step takes it, and a call has finitely many steps: a run
\* ends in such a state, with every call that will ever return returned.
Quiescent == \A t \in Threads : InCall(t) => Blocked(t)

\* The values of a log, in order.
Vals(log) == [i \in DOMAIN log |-> log[i].val]

\* The multiset of the elements of a sequence.
BagOfSeq(q) ==
    [v \in {q[i] : i \in DOMAIN q} |->
        Cardinality({i \in DOMAIN q : q[i] = v})]

\* The double-ended sequence the appends of a log build, front first.
RECURSIVE DequeOf(_)
DequeOf(log) ==
    IF log = << >> THEN << >>
    ELSE LET rest == DequeOf(SubSeq(log, 1, Len(log) - 1))
             last == log[Len(log)]
         IN  IF last.op = "push_back"
             THEN Append(rest, last.val)
             ELSE <<last.val>> \o rest

C2_BlockedPopReleased ==
    \A a, b \in Threads :
        ( /\ a # b
          /\ ncalls = 2
          /\ op[a] \in PopOps
          /\ op[b] \in PushOps
          /\ a \in start[b].blocked
          /\ pushlog # << >>
          /\ Quiescent )
        => (pc[a] = "idle" /\ ~threw[a] /\ ret[a] = pushlog[1].val)

\* C3 (Spec).  A push never blocks: once no call can take a step, no push
\* is left inside its call.
C3_PushCompletes ==
    Quiescent => \A t \in Threads : ~(op[t] \in PushOps /\ InCall(t))

\* C4 (GateSpec).  No lost wakeup on a gate constructed with count 0: never
\* more wait() calls have returned than signal() calls were made, and once
\* no call can take a step, with S calls of signal() and at least S calls of
\* wait() issued, all S signal() calls have returned and exactly S wait()
\* calls have returned.
C4_NoLostWakeup ==
    count0 = 0 =>
        /\ gate.waited <= gate.signalled
        /\ (Quiescent /\ gate.waits >= gate.signals) =>
              (gate.signalled = gate.signals /\ gate.waited = gate.signals)

\* C5 (Spec).  A pop never returns before a matching push: the pops that
\* have returned are at most as many as the appends done, and a pop whose
\* call started on an empty queue returns only after another thread has
\* appended since that start.
C5_PopAfterPush ==
    /\ Len(poplog) <= Len(pushlog)
    /\ \A i \in DOMAIN poplog :
          poplog[i].len0 = 0 =>
             \E j \in (poplog[i].pushes0 + 1) .. poplog[i].pushes :
                 pushlog[j].t # poplog[i].t

\* A pop that was called on the empty queue has returned.
C5_Witness ==
    \E i \in DOMAIN poplog :
        poplog[i].len0 = 0 /\ poplog[i].op \in PopOps

\* Every append so far was a push_back, and every removal a pop_front (a
\* pop_back) that came after all of them.
RunOf(pop) ==
    /\ \A i \in DOMAIN pushlog : pushlog[i].op = "push_back"
    /\ \A i \in DOMAIN poplog :
          poplog[i].op = pop /\ poplog[i].pushes = Len(pushlog)

\* A pop of the thread, with elements left to pop, goes through: it neither
\* finds the gate closed nor fails.
PopGoesThrough(pop) ==
    (op[1] = pop /\ Len(poplog) < Len(pushlog)) =>
        (~threw[1] /\ ~Blocked(1) /\ pc[1] # "wait_siglock")

\* C6 (SeqSpec).  FIFO: after push_back of v1..vn, the pop_front calls (at
\* most n) all return, and the i-th returns vi.
C6_Fifo ==
    RunOf("pop_front") =>
        /\ Len(poplog) <= Len(pushlog)
        /\ \A i \in DOMAIN poplog : poplog[i].val = pushlog[i].val
        /\ PopGoesThrough("pop_front")

\* Two different values were pushed at the back and both popped at the
\* front.
C6_Witness ==
    /\ RunOf("pop_front")
    /\ Len(pushlog) = 2
    /\ Len(poplog) = 2
    /\ pushlog[1].val # pushlog[2].val
    /\ pc[1] = "idle"

\* C7 (SeqSpec).  LIFO: after push_back of v1..vn, the pop_back calls (at
\* most n) all return, and the i-th returns v(n+1-i).
C7_Lifo ==
    RunOf("pop_back") =>
        /\ Len(poplog) <= Len(pushlog)
        /\ \A i \in DOMAIN poplog :
              poplog[i].val = pushlog[Len(pushlog) + 1 - i].val
        /\ PopGoesThrough("pop_back")

\* Two different values were pushed at the back and both popped at the
\* back.
C7_Witness ==
    /\ RunOf("pop_back")
    /\ Len(pushlog) = 2
    /\ Len(poplog) = 2
    /\ pushlog[1].val # pushlog[2].val
    /\ pc[1] = "idle"

\* C8 (SeqSpec).  Size accuracy: a size() that returns when N pushes at
\* either end and no pop have been done returns N.
C8_SizeAccuracy ==
    (op[1] = "size" /\ pc[1] = "idle" /\ poplog = << >>) =>
        ret[1] = Len(pushlog)

\* size() has returned after one push at each end.
C8_Witness ==
    /\ op[1] = "size"
    /\ pc[1] = "idle"
    /\ poplog = << >>
    /\ Len(pushlog) = 2
    /\ pushlog[1].op # pushlog[2].op

\* C9 (SeqSpec).  Detached-empty termination: begin_detached() or
\* rbegin_detached() on a queue nothing was ever pushed into does not block
\* and does not fail, and returns an iterator at its end that has yielded
\* nothing.
C9_DetachedEmptyEnds ==
    (op[1] \in {"begin_detached", "rbegin_detached"} /\ pushlog = << >>) =>
        /\ ~threw[1]
        /\ pc[1] # "deadlocked"
        /\ pc[1] = "idle" =>
              (iter[1].live /\ iter[1].end_ /\ yielded[1] = << >>)

\* The traversal of the thread: its iterator was constructed by
\* begin_detached() on a queue loaded by pushes and not popped from, and
\* since then only operator++ has popped and nothing was pushed.
DetachedRun ==
    /\ pushlog # << >>
    /\ iter[1].live
    /\ iter[1].base = 0
    /\ poplog # << >>
    /\ poplog[1].op = "begin_detached"
    /\ \A i \in DOMAIN poplog :
          /\ i > 1 => poplog[i].op = "inc"
          /\ poplog[i].pushes = Len(pushlog)

\* C10 (SeqSpec).  Detached-drain count: the traversal of a queue loaded
\* with k >= 1 elements yields them in the order pop_front would, never
\* finds the gate closed and never fails; the operator++ called after the
\* k-th element only reads the size; and at the end k elements have been
\* yielded and the queue is empty.
C10_DetachedDrain ==
    /\ (op[1] = "begin_detached" /\ pushlog # << >> /\ poplog = << >>) =>
          (~threw[1] /\ ~Blocked(1) /\ pc[1] # "wait_siglock")
    /\ DetachedRun =>
          /\ Len(poplog) <= Len(pushlog)
          /\ yielded[1] = SubSeq(DequeOf(pushlog), 1, Len(poplog))
          /\ op[1] \in {"begin_detached", "inc"} =>
                (~threw[1] /\ ~Blocked(1) /\ pc[1] # "wait_siglock")
          /\ (op[1] = "inc" /\ InCall(1) /\ Len(poplog) = Len(pushlog)) =>
                pc[1] \in {"size_lock", "size_body"}
          /\ iter[1].end_ =>
                (Len(yielded[1]) = Len(pushlog) /\ data_ = << >>)

\* A traversal has yielded the one element of the queue and reached the end.
C10_Witness ==
    /\ DetachedRun
    /\ iter[1].end_
    /\ op[1] = "inc"
    /\ yielded[1] = DequeOf(pushlog)

\* A traversal has yielded two different elements, the one pushed at the
\* front first.
C10_WitnessOrder ==
    /\ DetachedRun
    /\ Len(yielded[1]) = 2
    /\ pushlog[2].op = "push_front"
    /\ yielded[1] = << pushlog[2].val, pushlog[1].val >>
    /\ pushlog[1].val # pushlog[2].val

\* C11 (EqSpec).  Iterator equality is sentinel-only: a == b holds exactly
\* when both iterators are at their end (so two iterators that are not at
\* their end never compare equal), and a != b is the negation of a == b.
C11_EqualIffBothEnd ==
    cmp.done =>
        /\ cmp.eq <=> (cmp.a /\ cmp.b)
        /\ cmp.ne <=> ~cmp.eq

\* The double-ended sequence after the appends a + 1 .. b of pushlog were
\* applied to d, and the one before and after the j-th removal of poplog,
\* when appends and removals are applied in the order m_ was acquired.
RECURSIVE Pushed(_, _, _)
Pushed(d, a, b) ==
    IF b <= a THEN d
    ELSE LET e == Pushed(d, a, b - 1)
         IN  IF pushlog[b].op = "push_back"
             THEN Append(e, pushlog[b].val)
             ELSE <<pushlog[b].val>> \o e

RECURSIVE BeforePop(_)
BeforePop(j) ==
    IF j = 1 THEN Pushed(<< >>, 0, poplog[1].pushes)
    ELSE LET d == BeforePop(j - 1)
             e == IF d = << >> THEN d
                  ELSE IF poplog[j - 1].op \in FrontOps THEN Tail(d)
                  ELSE SubSeq(d, 1, Len(d) - 1)
         IN  Pushed(e, poplog[j - 1].pushes, poplog[j].pushes)

GateSettled ==
    \A t \in Threads :
        /\ ~(op[t] \in PushOps /\ pc[t] \in {"signal_lock", "signal_body"})
        /\ pc[t] \notin {"pop_lock", "pop_body"}

\* C13 (Spec).  Gate mirrors length: whenever no push is between its append
\* and its gate increment and no pop between its gate decrement and its
\* removal, count_ equals the length of data_.
C13_GateMirrorsLength == GateSettled => count_ = Len(data_)

\* After two pushes and a pop, with nothing in between, one element is
\* stored and the counter is 1.
C13_Witness ==
    /\ GateSettled
    /\ Len(pushlog) = 2
    /\ Len(poplog) = 1
    /\ count_ = 1

\* C14 (GateSpec).  The gate's counter is never negative, whatever count
\* >= 0 the gate was constructed with and however signal() and wait()
\* interleave.
C14_CountNeverNegative == count_ >= 0

\* Two calls of wait() have returned and brought the counter back to 0.
C14_Witness ==
    /\ gate.waited = 2
    /\ count_ = 0

\* Thread t makes a call of end() or rend() in this step.
CallsEnd(t) ==
    /\ pc[t] = "idle"
    /\ ncalls' = ncalls + 1
    /\ op'[t] \in EndOps
    /\ op'[t] # op[t] \/ pc'[t] # pc[t] \/ sentinel'[t] # sentinel[t]

\* C15 (IterSpec).  end() and rend() return an iterator at its end without
\* touching the queue: the call is never left in progress (it takes no lock
\* and waits for nothing), it does no pop, and it leaves data_, count_ and
\* the three mutexes as they are, whatever the queue holds and wherever the
\* other thread stands.
C15_EndTouchesNothing ==
    /\ [](\A t \in Threads :
            op[t] \in EndOps =>
                (pc[t] = "idle" /\ sentinel[t].live /\ sentinel[t].end_))
    /\ [][\A t \in Threads :
            CallsEnd(t) =>
                /\ pc'[t] = "idle"
                /\ sentinel'[t].end_
                /\ data_' = data_
                /\ count_' = count_
                /\ poplog' = poplog
                /\ << m_, mtx_, sig_ >>' = << m_, mtx_, sig_ >>]_vars

\* A thread has got its end iterator from rend() on a queue that holds an
\* element, while the other thread is inside a pop and holds m_.
C15_Witness ==
    \E t, u \in Threads :
        /\ op[t] = "rend"
        /\ sentinel[t].live
        /\ pc[u] = "pop_body"
        /\ Len(data_) = 2
        /\ ncalls = 2

\* C16 (Spec).  A pop never removes from an empty sequence: a pop that has
\* passed the gate and holds m_ finds data_ non-empty; and the gate's counter
\* plus the pops that have passed the gate and not yet removed never exceed
\* the length of data_.
C16_PopNeverOnEmpty ==
    /\ \A t \in Threads : pc[t] = "pop_body" => data_ # << >>
    /\ count_ + Cardinality({t \in Threads : pc[t] \in {"pop_lock", "pop_body"}})
          <= Len(data_)

\* A pop holds m_ to take the only element, while a push of another thread
\* waits for m_.
C16_Witness ==
    \E t, u \in Threads :
        /\ pc[t] = "pop_body"
        /\ Len(data_) = 1
        /\ op[u] \in PushOps
        /\ pc[u] = "push_lock"

\* C17 (GateSpec).  The gate never releases a lock its caller does not hold:
\* a thread about to run sig_.unlock() in signal() has locked sig_, and a
\* thread whose unique_lock is about to release mtx_, in signal() or in
\* wait(), has locked mtx_.
C17_UnlocksOwnLock ==
    \A t \in Threads :
        /\ pc[t] = "signal_body" => (sig_ = t /\ mtx_ = t)
        /\ pc[t] = "wait_test" => mtx_ = t

\* What a step of thread t leaves alone when it touches neither the queue
\* nor the gate nor the value the iterator of t holds.
TouchesNothing(t) ==
    /\ data_' = data_
    /\ count_' = count_
    /\ poplog' = poplog
    /\ yielded' = yielded
    /\ << mtx_, sig_ >>' = << mtx_, sig_ >>
    /\ iter'[t].value_ = iter[t].value_

\* C18 (IterSpec).  Detached advance on an empty queue: operator++ and
\* operator-- of a detached iterator start with the size check; taking m_
\* for it touches nothing; and when the check finds data_ empty the call
\* returns at once with the iterator at its end, without a pop, without
\* going to the gate, and with data_, count_ and value_ unchanged.
C18_DetachedAdvanceOnEmpty ==
    [][\A t \in Threads :
        /\ ( /\ pc[t] = "idle"
             /\ pc'[t] # "idle"
             /\ op'[t] \in AdvanceOps
             /\ iter[t].detach_ )
           => pc'[t] = "size_lock"
        /\ (op[t] \in AdvanceOps /\ pc[t] = "size_lock" /\ pc'[t] # pc[t])
           => (TouchesNothing(t) /\ iter'[t] = iter[t])
        /\ ( /\ op[t] \in AdvanceOps
             /\ pc[t] = "size_body"
             /\ pc'[t] # pc[t]
             /\ Len(data_) = 0 )
           => /\ pc'[t] = "idle"
              /\ ~threw'[t]
              /\ iter'[t].end_
              /\ TouchesNothing(t)]_vars

\* A reverse traversal by a detached iterator has yielded an element and
\* then, the queue being empty, ended in operator--.
C18_Witness ==
    \E t \in Threads :
        /\ op[t] = "dec"
        /\ pc[t] = "idle"
        /\ iter[t].detach_
        /\ iter[t].end_
        /\ Len(yielded[t]) = 1
        /\ data_ = << >>

\* Thread t completes, in this step, a construction by begin()/rbegin() or
\* an advance that did not end at the size check, of an iterator that is
\* not at its end.
CompletesAdvance(t) ==
    /\ op[t] \in AdvanceOps \cup BeginOps
    /\ pc[t] \notin {"idle", "size_body"}
    /\ pc'[t] = "idle"
    /\ ~threw'[t]
    /\ ~iter[t].end_

\* C19 (IterSpec).  An iterator that is not detached never reaches its end
\* by advancing, nor does a detached one whose size check found an element:
\* every completed operator++ / begin() (operator-- / rbegin()) on an
\* iterator not at its end does one pop, at the front (at the back), as the
\* last step of the call, holds the popped value afterwards and is still
\* not at its end; no call pops and goes on.
C19_AdvancePopsOnce ==
    [][/\ \A t \in Threads :
            /\ CompletesAdvance(t) =>
                  /\ data_ # << >>
                  /\ Len(poplog') = Len(poplog) + 1
                  /\ poplog'[Len(poplog')].t = t
                  /\ poplog'[Len(poplog')].val =
                        IF op[t] \in {"inc", "begin", "begin_detached"}
                        THEN Head(data_) ELSE data_[Len(data_)]
                  /\ data_' =
                        IF op[t] \in {"inc", "begin", "begin_detached"}
                        THEN Tail(data_) ELSE SubSeq(data_, 1, Len(data_) - 1)
                  /\ iter'[t].value_ = poplog'[Len(poplog')].val
                  /\ iter'[t].live
                  /\ ~iter'[t].end_
            /\ (iter[t].live /\ iter'[t].live /\ ~iter[t].detach_
                    /\ ~iter[t].end_)
                  => ~iter'[t].end_
            /\ ( /\ op[t] \in AdvanceOps
                 /\ pc[t] = "size_body"
                 /\ pc'[t] # pc[t]
                 /\ Len(data_) # 0 )
                  => (pc'[t] = "wait_lock" /\ iter'[t] = iter[t])
       /\ poplog' # poplog => pc'[poplog'[Len(poplog')].t] = "idle"]_vars

\* An iterator from rbegin() has been advanced by operator--: it holds the
\* second value from the back and is not at its end.
C19_Witness ==
    \E t \in Threads :
        /\ op[t] = "dec"
        /\ pc[t] = "idle"
        /\ ~threw[t]
        /\ ~iter[t].detach_
        /\ ~iter[t].end_
        /\ Len(yielded[t]) = 2
        /\ iter[t].value_ = yielded[t][2]
        /\ yielded[t] = << pushlog[2].val, pushlog[1].val >>

\* The advance of the detached iterator of thread t has passed its size
\* check, which found an element, and has not popped yet.
RacedAdvance(t) ==
    /\ op[t] \in AdvanceOps
    /\ iter[t].live
    /\ iter[t].detach_
    /\ pc[t] \in {"wait_lock", "wait_test", "wait_siglock", "deadlocked",
                  "pop_lock", "pop_body"}

\* Nothing was pushed since the queue was loaded, and no push is under way.
NoProducers ==
    /\ \A i \in DOMAIN pushlog : pushlog[i].t = None
    /\ \A t \in Threads : ~(op[t] \in PushOps /\ InCall(t))

\* C20 (IterSpec).  Detached termination is racy: the size check and the
\* pop of an advance are two steps.  Without producers, an advance that has
\* passed its size check and finds the queue empty has been overtaken by a
\* pop of another consumer; it is then inside the gate's wait(), which it
\* has not passed; and an advance that has passed its size check never
\* moves its iterator to the end.
C20_RacyTermination ==
    /\ [](\A t \in Threads :
            (RacedAdvance(t) /\ data_ = << >> /\ NoProducers) =>
                /\ \E i \in DOMAIN poplog : poplog[i].t # t
                /\ pc[t] \in {"wait_lock", "wait_test", "wait_siglock",
                              "deadlocked"})
    /\ [][\A t \in Threads :
            (RacedAdvance(t) /\ iter'[t].live) =>
                iter'[t].end_ = iter[t].end_]_vars

\* The queue held one element when the advance of a detached iterator that
\* is not at its end started; the size check saw it; the other consumer
\* popped it with pop_front(); and the advance is blocked inside the gate's
\* wait() on the empty queue.
C20_Witness ==
    \E t, u \in Threads :
        /\ t # u
        /\ RacedAdvance(t)
        /\ op[t] = "inc"
        /\ ~iter[t].end_
        /\ start[t].len = 1
        /\ pc[t] = "deadlocked"
        /\ data_ = << >>
        /\ NoProducers
        /\ poplog[Len(poplog)].t = u
        /\ poplog[Len(poplog)].op = "pop_front"
        /\ pc[u] = "idle"

====
